---- MODULE Spec2Model ----
(***************************************************************************)
(* EchoStream synchronisation engine (src/server.py, src/redis_config.py). *)
(*                                                                         *)
(* The Redis hash STATE_KEY is the record `store` and the Redis set        *)
(* USER_SET_KEY is `users`.  Every handler runs in its own green thread    *)
(* and yields at each Redis call, so one action is one Redis round trip    *)
(* (a MULTI/EXEC pipeline is one round trip) together with the local code  *)
(* around it.  What a step sends out or reads from outside (a message on   *)
(* SYNC_CHANNEL, a sync_state message to a client, a dropped command, a    *)
(* reading of the wall clock) is held in `published`, `sync_state`,        *)
(* `ignored` and `now` for the state that follows the step.                *)
(***************************************************************************)
EXTENDS Integers, Sequences, FiniteSets, TLC

\* ---------------------------------------------------------------- bounds
MaxOps == 4      \* client requests (connect, disconnect, command, upload, request_sync) in a run
MaxClock == 2    \* largest reading of the wall clock
MaxFailOps == 3  \* client requests in a run in which the store may be unreachable
MaxBusOps == 3   \* client requests and listener failures in a run in which the listener runs
MaxTime == 1     \* largest client-supplied playback time

Sessions == {"U1", "U2", "U3"}
ALLOWED_EXTENSIONS == {"mp4", "webm", "ogg"}
\* a file name is the sequence of its parts, "." being a part of its own;
\* <<>> is the empty name and NoFile a form without a 'file' part
NoFile == <<"NoFile">>
Filenames == {<<>>, <<"a", ".", "mp4">>, <<"a", ".", "txt">>, <<"mp4">>, <<"a", ".">>}
\* request.files and request.form['sid'] of a POST /upload
Requests == [file : Filenames \cup {NoFile}, sid : Sessions \cup {""}]
\* url_for('static', filename='videos/' + secure_filename(file.filename))
url_for(filename) ==
    CASE filename = <<"a", ".", "mp4">> -> "/static/videos/a.mp4"
      [] filename = <<"a", ".", "txt">> -> "/static/videos/a.txt"
      [] filename = <<"mp4">> -> "/static/videos/mp4"
      [] filename = <<"a", ".">> -> "/static/videos/a"
      [] OTHER -> "/static/videos/"
Urls == {url_for(f) : f \in Filenames}
Kinds == {"play", "pause", "seek"}
TimeVals == {-1, 0, MaxTime}    \* float(data.get('time', 0.0)): any number
\* time.time() is the wall clock of the serving process: it is not monotonic
\* (adjustments, skew between processes), so a reading is any value of Clock
Clock == 1 .. MaxClock
None == "None"

VARIABLES
    store,       \* r.hgetall(STATE_KEY)
    users,       \* r.smembers(USER_SET_KEY)
    conn,        \* per session: transport state and handle_connect's position
    cmd,         \* per session: its play/pause/seek handler
    disc,        \* per session: its handle_disconnect
    up,          \* per issuer sid: its upload_video request
    lastCmd,     \* the handler (play, pause, seek) whose pipeline wrote the store last, if one
                 \* did, and whether that write repeated the write before it
    ops,         \* requests accepted, and failures of the listener, so far
    published,   \* the messages put on SYNC_CHANNEL by the step just taken
    sync_state,  \* the sync_state message emitted by the step just taken, if any
    ignored,     \* the session whose command the step just taken dropped, if any
    now,         \* what time.time() returned in the step just taken, 0 if it was not called
    response,    \* the HTTP response /upload returned in the step just taken, if any
    broadcast,   \* the messages the listener emitted to all sessions in the step just taken
    redis_ok,    \* whether Redis answers (FALSE: every call raises redis.exceptions.RedisError)
    budget,      \* requests and listener failures the run admits
    listener,    \* redis_event_listener's position
    chan,        \* messages SYNC_CHANNEL has handed to the listener's subscription, unread
    failed       \* whether the listener has lost a subscription so far

\* the part of the state the handlers leave alone
env == <<redis_ok, budget, listener, failed>>

vars == <<store, users, conn, cmd, disc, up, lastCmd, ops,
          published, sync_state, ignored, now,
          response, broadcast, redis_ok, budget, listener, chan, failed>>

\* ------------------------------------------------------------ redis_config
initialize_redis_state ==
    [video_file_url |-> "",
     is_playing |-> "0",
     current_time |-> 0,
     last_update_timestamp |-> 0,
     controller_sid |-> ""]

\* ------------------------------------------------------------- utilities
\* get_current_state, where time.time() returns t
get_current_state(st, t) ==
    LET is_playing == st.is_playing = "1"
        base_time == st.current_time
        last_update == st.last_update_timestamp
        elapsed == t - last_update
        authoritative_time == IF is_playing THEN base_time + elapsed ELSE base_time
    IN  [video_file_url |-> st.video_file_url,
         is_playing |-> is_playing,
         current_time |-> authoritative_time,
         last_update_timestamp |-> st.last_update_timestamp,
         controller_sid |-> st.controller_sid]

\* get_current_state calls time.time() only when the stored state is playing
clock_read(st, t) == IF st.is_playing = "1" THEN t ELSE 0

is_controller(sid) == store.controller_sid = sid

\* r.srandmember(USER_SET_KEY): any member, None on the empty set
srandmember(set) == IF set = {} THEN {None} ELSE set

\* r.publish(SYNC_CHANNEL, json.dumps(message)): the message put on the channel
publish(message) == <<message>>

\* mutant: the channel keeps messages for a listener that is not subscribed
deliver_durable(channel, listener_pc, message, applied) ==
    Append(channel, [msg |-> message, applied |-> applied])

\* Redis pub/sub: a published message reaches the subscriptions open at that
\* moment and no other; `applied` notes whether the publishing handler's write
\* to the store had been executed
deliver(channel, listener_pc, message, applied) ==
    IF listener_pc = "listening"
    THEN Append(channel, [msg |-> message, applied |-> applied])
    ELSE channel

Event(name, data) == [event |-> name, data |-> data]

IdleCmd == [pc |-> "idle", kind |-> "play", time |-> 0, auth |-> FALSE, wrote |-> FALSE]
IdleDisc == [pc |-> "idle", sel |-> None, members |-> {}, wrote |-> FALSE]
DoneDisc == [pc |-> "done", sel |-> None, members |-> {}, wrote |-> FALSE]
\* handle_disconnect returned without running the election
SkippedDisc == [pc |-> "done_no_election", sel |-> None, members |-> {}, wrote |-> FALSE]
IdleUp == [pc |-> "idle", url |-> "", wrote |-> FALSE, req |-> None]
NoCmd == [kind |-> None, again |-> FALSE]
\* no HTTP response was sent in the step just taken
NoResponse == [status |-> 0, body |-> None]
NoSync == [to |-> None, data |-> get_current_state(initialize_redis_state, 0)]

\* the state once main has initialised the store and started the listener
\* task, with a budget of b requests and the listener at listener_pc
Start(b, listener_pc) ==
    /\ store = initialize_redis_state
    /\ users = {}
    /\ conn = [s \in Sessions |-> "new"]
    /\ cmd = [s \in Sessions |-> IdleCmd]
    /\ disc = [s \in Sessions |-> IdleDisc]
    /\ up = [s \in Sessions |-> IdleUp]
    /\ lastCmd = NoCmd
    /\ ops = 0
    /\ published = <<>>
    /\ sync_state = NoSync
    /\ ignored = None
    /\ now = 0
    /\ response = NoResponse
    /\ broadcast = <<>>
    /\ redis_ok = TRUE
    /\ budget = b
    /\ listener = listener_pc
    /\ chan = <<>>
    /\ failed = FALSE

Init == Start(MaxOps, "starting")

\* --------------------------------------------------------- handle_connect
\* mutant: the member is not recorded
sadd_dropped(set, sid) == set

\* r.sadd(USER_SET_KEY, sid)
sadd(set, sid) == set \cup {sid}

ConnectSadd(s) ==
    /\ redis_ok
    /\ conn[s] = "new"
    /\ ops < budget
    /\ ops' = ops + 1
    /\ users' = sadd(users, s)
    /\ conn' = [conn EXCEPT ![s] = "sadd_done"]
    /\ published' = <<>> /\ sync_state' = NoSync /\ ignored' = None /\ now' = 0
    /\ UNCHANGED <<store, cmd, disc, up, lastCmd>>
    /\ response' = NoResponse /\ broadcast' = <<>> /\ UNCHANGED <<env, chan>>

ConnectEmit(s) ==
    /\ redis_ok
    /\ conn[s] = "sadd_done"
    /\ \E ts \in Clock :
          /\ sync_state' = [to |-> s, data |-> get_current_state(store, ts)]
          /\ now' = clock_read(store, ts)
    /\ conn' = [conn EXCEPT ![s] = "open"]
    /\ published' = <<>> /\ ignored' = None
    /\ UNCHANGED <<store, users, cmd, disc, up, lastCmd, ops>>
    /\ response' = NoResponse /\ broadcast' = <<>> /\ UNCHANGED <<env, chan>>

\* ---------------------------------------------------- handle_request_sync
RequestSync(s) ==
    /\ redis_ok
    /\ conn[s] = "open"
    /\ ops < budget
    /\ ops' = ops + 1
    /\ \E ts \in Clock :
          /\ sync_state' = [to |-> s, data |-> get_current_state(store, ts)]
          /\ now' = clock_read(store, ts)
    /\ published' = <<>> /\ ignored' = None
    /\ UNCHANGED <<store, users, conn, cmd, disc, up, lastCmd>>
    /\ response' = NoResponse /\ broadcast' = <<>> /\ UNCHANGED <<env, chan>>

\* ------------------------------------------------------ handle_disconnect
\* mutant: the disconnecting session is left in the set
srem_forgotten(set, sid) == set

\* r.srem(USER_SET_KEY, sid)
srem(set, sid) == set \ {sid}

Disconnect(s) ==
    /\ redis_ok
    /\ conn[s] = "open"
    /\ disc[s].pc = "idle"
    /\ ops < budget
    /\ ops' = ops + 1
    /\ conn' = [conn EXCEPT ![s] = "closed"]
    /\ users' = srem(users, s)
    /\ disc' = [disc EXCEPT ![s].pc = "is_controller"]
    /\ published' = <<>> /\ sync_state' = NoSync /\ ignored' = None /\ now' = 0
    /\ UNCHANGED <<store, cmd, up, lastCmd>>
    /\ response' = NoResponse /\ broadcast' = <<>> /\ UNCHANGED <<env, chan>>

\* mutant: every disconnect runs the election
after_disconnect_check_always(h, authorized) == [h EXCEPT !.pc = "srandmember"]

\* `if is_controller(sid): elect_new_controller()`: handle_disconnect h once
\* is_controller answered
after_disconnect_check(h, authorized) ==
    IF authorized THEN [h EXCEPT !.pc = "srandmember"] ELSE SkippedDisc

DisconnectCheck(s) ==
    /\ redis_ok
    /\ disc[s].pc = "is_controller"
    /\ disc' = [disc EXCEPT ![s] = after_disconnect_check(disc[s], is_controller(s))]
    /\ published' = <<>> /\ sync_state' = NoSync /\ ignored' = None /\ now' = 0
    /\ UNCHANGED <<store, users, conn, cmd, up, lastCmd, ops>>
    /\ response' = NoResponse /\ broadcast' = <<>> /\ UNCHANGED <<env, chan>>

\* --------------------------------------------------- elect_new_controller
\* the value elect_new_controller writes and publishes for the member it drew
elected(new_controller_sid) ==
    IF new_controller_sid # None THEN new_controller_sid ELSE ""

\* mutant: the election also stops playback
elect_hset_pauses(st, sid) == [st EXCEPT !.controller_sid = sid, !.is_playing = "0"]

\* r.hset(STATE_KEY, "controller_sid", sid)
elect_hset(st, sid) == [st EXCEPT !.controller_sid = sid]

\* disc[s].members keeps the membership the draw was made from
ElectSelect(s) ==
    /\ redis_ok
    /\ disc[s].pc = "srandmember"
    /\ \E m \in srandmember(users) :
          disc' = [disc EXCEPT ![s] = [pc |-> "hset", sel |-> m, members |-> users,
                                       wrote |-> FALSE]]
    /\ published' = <<>> /\ sync_state' = NoSync /\ ignored' = None /\ now' = 0
    /\ UNCHANGED <<store, users, conn, cmd, up, lastCmd, ops>>
    /\ response' = NoResponse /\ broadcast' = <<>> /\ UNCHANGED <<env, chan>>

ElectHset(s) ==
    /\ redis_ok
    /\ disc[s].pc = "hset"
    /\ store' = elect_hset(store, elected(disc[s].sel))
    /\ disc' = [disc EXCEPT ![s].pc = "publish", ![s].wrote = TRUE]
    /\ lastCmd' = NoCmd
    /\ published' = <<>> /\ sync_state' = NoSync /\ ignored' = None /\ now' = 0
    /\ UNCHANGED <<users, conn, cmd, up, ops>>
    /\ response' = NoResponse /\ broadcast' = <<>> /\ UNCHANGED <<env, chan>>

ElectPublish(s) ==
    /\ redis_ok
    /\ disc[s].pc = "publish"
    /\ published' = publish(Event("controller_change",
                                  [controller_sid |-> elected(disc[s].sel)]))
    /\ disc' = [disc EXCEPT ![s] = DoneDisc]
    /\ sync_state' = NoSync /\ ignored' = None /\ now' = 0
    /\ UNCHANGED <<store, users, conn, cmd, up, lastCmd, ops>>
    /\ chan' = deliver(chan, listener, published'[1], disc[s].wrote)
    /\ response' = NoResponse /\ broadcast' = <<>> /\ UNCHANGED env

\* ------------------------------------- handle_play, handle_pause, handle_seek
\* the pipelines of the three handlers, where time.time() returns ts
\* mutant: play toggles is_playing instead of setting it
handle_play_toggles(st, current_time, ts) ==
    [st EXCEPT !.is_playing = IF st.is_playing = "1" THEN "0" ELSE "1",
               !.current_time = current_time,
               !.last_update_timestamp = ts]

handle_play(st, current_time, ts) ==
    [st EXCEPT !.is_playing = "1",
               !.current_time = current_time,
               !.last_update_timestamp = ts]

handle_pause(st, current_time, ts) ==
    [st EXCEPT !.is_playing = "0",
               !.current_time = current_time,
               !.last_update_timestamp = ts]

\* mutant: seek carries the is_playing write of handle_pause
handle_seek_pauses(st, current_time, ts) ==
    [st EXCEPT !.is_playing = "0",
               !.current_time = current_time,
               !.last_update_timestamp = ts]

handle_seek(st, current_time, ts) ==
    [st EXCEPT !.current_time = current_time,
               !.last_update_timestamp = ts]

pipe_execute(kind, st, current_time, ts) ==
    CASE kind = "play" -> handle_play(st, current_time, ts)
      [] kind = "pause" -> handle_pause(st, current_time, ts)
      [] kind = "seek" -> handle_seek(st, current_time, ts)

sync_event(kind) ==
    CASE kind = "play" -> "sync_play"
      [] kind = "pause" -> "sync_pause"
      [] kind = "seek" -> "sync_seek"

\* mutant: the controller's command publishes without running its pipeline
after_check_skips_write(h, authorized) ==
    IF authorized THEN [h EXCEPT !.pc = "publish", !.auth = authorized] ELSE IdleCmd

\* mutant: the guard is missing, the handler goes on to its pipeline
after_check_no_guard(h, authorized) ==
    [h EXCEPT !.pc = "execute", !.auth = authorized]

\* mutant: a dropped command skips the pipeline but still publishes
after_check_still_publishes(h, authorized) ==
    IF authorized THEN [h EXCEPT !.pc = "execute", !.auth = authorized]
                  ELSE [h EXCEPT !.pc = "publish"]

\* `if not is_controller(sid): return`: the handler h once is_controller answered
after_check(h, authorized) ==
    IF authorized THEN [h EXCEPT !.pc = "execute", !.auth = authorized] ELSE IdleCmd

\* the event reaches the handler of session s
CommandArrive(s, kind) ==
    /\ conn[s] = "open"
    /\ cmd[s].pc = "idle"
    /\ ops < budget
    /\ ops' = ops + 1
    /\ cmd' = [cmd EXCEPT ![s] = [IdleCmd EXCEPT !.pc = "is_controller", !.kind = kind]]
    /\ published' = <<>> /\ sync_state' = NoSync /\ ignored' = None /\ now' = 0
    /\ UNCHANGED <<store, users, conn, disc, up, lastCmd>>
    /\ response' = NoResponse /\ broadcast' = <<>> /\ UNCHANGED <<env, chan>>

CommandCheck(s) ==
    /\ redis_ok
    /\ cmd[s].pc = "is_controller"
    /\ cmd' = [cmd EXCEPT ![s] = after_check(cmd[s], is_controller(s))]
    /\ ignored' = IF cmd'[s].pc = "idle" THEN s ELSE None
    /\ published' = <<>> /\ sync_state' = NoSync /\ now' = 0
    /\ UNCHANGED <<store, users, conn, disc, up, lastCmd, ops>>
    /\ response' = NoResponse /\ broadcast' = <<>> /\ UNCHANGED <<env, chan>>

\* float(data.get('time', 0.0)), then the pipeline
CommandExecute(s) ==
    /\ redis_ok
    /\ cmd[s].pc = "execute"
    /\ \E current_time \in TimeVals, ts \in Clock :
          /\ store' = pipe_execute(cmd[s].kind, store, current_time, ts)
          /\ cmd' = [cmd EXCEPT ![s].pc = "publish", ![s].time = current_time,
                                ![s].wrote = TRUE]
          /\ now' = ts
          /\ lastCmd' = [kind |-> cmd[s].kind,
                         again |-> lastCmd.kind = cmd[s].kind
                                   /\ store.current_time = current_time]
    /\ published' = <<>> /\ sync_state' = NoSync /\ ignored' = None
    /\ UNCHANGED <<users, conn, disc, up, ops>>
    /\ response' = NoResponse /\ broadcast' = <<>> /\ UNCHANGED <<env, chan>>

CommandPublish(s) ==
    /\ redis_ok
    /\ cmd[s].pc = "publish"
    /\ published' = publish(Event(sync_event(cmd[s].kind),
                                  [time |-> cmd[s].time, sid |-> s]))
    /\ cmd' = [cmd EXCEPT ![s] = IdleCmd]
    /\ sync_state' = NoSync /\ ignored' = None /\ now' = 0
    /\ UNCHANGED <<store, users, conn, disc, up, lastCmd, ops>>
    /\ chan' = deliver(chan, listener, published'[1], cmd[s].wrote)
    /\ response' = NoResponse /\ broadcast' = <<>> /\ UNCHANGED env

\* ------------------------------------------------------------ upload_video
\* str.lower() on the parts the model uses
Lower(part) ==
    CASE part = "MP4" -> "mp4"
      [] OTHER -> part

\* filename.rsplit('.', 1)[1]: the parts after the last "."
Extension(filename) ==
    LET dots == {i \in 1 .. Len(filename) : filename[i] = "."}
        last == CHOOSE i \in dots : \A j \in dots : j <= i
    IN  SubSeq(filename, last + 1, Len(filename))

\* mutant: any name with a dot passes
allowed_file_any_extension(filename) ==
    \E i \in 1 .. Len(filename) : filename[i] = "."

allowed_file(filename) ==
    /\ \E i \in 1 .. Len(filename) : filename[i] = "."
    /\ Len(Extension(filename)) = 1
    /\ Lower(Extension(filename)[1]) \in ALLOWED_EXTENSIONS

\* the error upload_video answers a request with, None when it accepts it
upload_error(req) ==
    IF req.file = NoFile THEN "No file part"
    ELSE IF req.file = <<>> THEN "No selected file"
    ELSE IF allowed_file(req.file)
         THEN IF req.sid = "" THEN "No client SID" ELSE None
         ELSE "File type not allowed"

\* the requests upload_video refuses and those it accepts
Refused == {req \in Requests : upload_error(req) # None}
Accepted == Requests \ Refused

\* the error texts of the refused requests
RefusedWith == {upload_error(req) : req \in Refused}

\* some refused request is answered: jsonify({"success": False, "error": error}), 400
UploadRejected(error) ==
    /\ error \in RefusedWith
    /\ ops < budget
    /\ ops' = ops + 1
    /\ response' = [status |-> 400,
                    body |-> [success |-> FALSE, error |-> error]]
    /\ published' = <<>> /\ sync_state' = NoSync /\ ignored' = None /\ now' = 0
    /\ broadcast' = <<>>
    /\ UNCHANGED <<store, users, conn, cmd, disc, up, lastCmd, env, chan>>

\* mutant: the pipeline lacks the controller_sid write
upload_video_keeps_controller(video_url, uploader_sid, ts) ==
    [video_file_url |-> video_url,
     is_playing |-> "0",
     current_time |-> 0,
     last_update_timestamp |-> ts,
     controller_sid |-> store.controller_sid]

\* the pipeline of upload_video, where time.time() returns ts
upload_video(video_url, uploader_sid, ts) ==
    [video_file_url |-> video_url,
     is_playing |-> "0",
     current_time |-> 0,
     last_update_timestamp |-> ts,
     controller_sid |-> uploader_sid]

\* an accepted upload whose form names the issuer s: the pipeline executes
Upload(req) ==
    LET s == req.sid
        u == url_for(req.file)
    IN
    /\ redis_ok
    /\ req \in Accepted
    /\ up[s].pc = "idle"
    /\ ops < budget
    /\ ops' = ops + 1
    /\ \E ts \in Clock :
          /\ store' = upload_video(u, s, ts)
          /\ now' = ts
    /\ up' = [up EXCEPT ![s] = [pc |-> "publish_video_loaded", url |-> u, wrote |-> TRUE,
                                 req |-> req]]
    /\ lastCmd' = NoCmd
    /\ published' = <<>> /\ sync_state' = NoSync /\ ignored' = None
    /\ UNCHANGED <<users, conn, cmd, disc>>
    /\ response' = NoResponse /\ broadcast' = <<>> /\ UNCHANGED <<env, chan>>

UploadPublishLoaded(s) ==
    /\ redis_ok
    /\ up[s].pc = "publish_video_loaded"
    /\ published' = publish(Event("video_loaded", [url |-> up[s].url, sid |-> s]))
    /\ up' = [up EXCEPT ![s].pc = "publish_controller_change"]
    /\ sync_state' = NoSync /\ ignored' = None /\ now' = 0
    /\ UNCHANGED <<store, users, conn, cmd, disc, lastCmd, ops>>
    /\ chan' = deliver(chan, listener, published'[1], up[s].wrote)
    /\ response' = NoResponse /\ broadcast' = <<>> /\ UNCHANGED env

UploadPublishController(s) ==
    /\ redis_ok
    /\ up[s].pc = "publish_controller_change"
    /\ published' = publish(Event("controller_change", [controller_sid |-> s]))
    /\ up' = [up EXCEPT ![s] = IdleUp]
    /\ sync_state' = NoSync /\ ignored' = None /\ now' = 0
    /\ UNCHANGED <<store, users, conn, cmd, disc, lastCmd, ops>>
    /\ chan' = deliver(chan, listener, published'[1], up[s].wrote)
    /\ response' = [status |-> 204, body |-> None]
    /\ broadcast' = <<>> /\ UNCHANGED env

\* ----------------------------------------------------------- specification
Next ==
    \/ \E s \in Sessions : ConnectSadd(s)
    \/ \E s \in Sessions : ConnectEmit(s)
    \/ \E s \in Sessions : RequestSync(s)
    \/ \E s \in Sessions : Disconnect(s)
    \/ \E s \in Sessions : DisconnectCheck(s)
    \/ \E s \in Sessions : ElectSelect(s)
    \/ \E s \in Sessions : ElectHset(s)
    \/ \E s \in Sessions : ElectPublish(s)
    \/ \E s \in Sessions, kind \in Kinds : CommandArrive(s, kind)
    \/ \E s \in Sessions : CommandCheck(s)
    \/ \E s \in Sessions : CommandExecute(s)
    \/ \E s \in Sessions : CommandPublish(s)
    \/ \E req \in Accepted : Upload(req)
    \/ \E error \in RefusedWith : UploadRejected(error)
    \/ \E s \in Sessions : UploadPublishLoaded(s)
    \/ \E s \in Sessions : UploadPublishController(s)

Spec == Init /\ [][Next]_vars

\* ------------------------------------------------ the store is unreachable
\* While redis_ok is false every call on the Redis client raises a
\* redis.exceptions.RedisError; the steps below are the handlers' steps then.
RedisDown ==
    /\ redis_ok
    /\ redis_ok' = FALSE
    /\ published' = <<>> /\ sync_state' = NoSync /\ ignored' = None /\ now' = 0
    /\ response' = NoResponse /\ broadcast' = <<>>
    /\ UNCHANGED <<store, users, conn, cmd, disc, up, lastCmd, ops, chan,
                   budget, listener, failed>>

RedisUp ==
    /\ ~redis_ok
    /\ redis_ok' = TRUE
    /\ published' = <<>> /\ sync_state' = NoSync /\ ignored' = None /\ now' = 0
    /\ response' = NoResponse /\ broadcast' = <<>>
    /\ UNCHANGED <<store, users, conn, cmd, disc, up, lastCmd, ops, chan,
                   budget, listener, failed>>

\* `return {}` of get_current_state: a dictionary without keys
EmptyDict == <<>>

\* r.sadd raises: handle_connect prints and returns, nothing is emitted
ConnectSaddFail(s) ==
    /\ ~redis_ok
    /\ conn[s] = "new"
    /\ ops < budget
    /\ ops' = ops + 1
    /\ conn' = [conn EXCEPT ![s] = "open"]
    /\ published' = <<>> /\ sync_state' = NoSync /\ ignored' = None /\ now' = 0
    /\ UNCHANGED <<store, users, cmd, disc, up, lastCmd>>
    /\ response' = NoResponse /\ broadcast' = <<>> /\ UNCHANGED <<env, chan>>

\* r.hgetall raises inside get_current_state, which returns {}
ConnectEmitFail(s) ==
    /\ ~redis_ok
    /\ conn[s] = "sadd_done"
    /\ sync_state' = [to |-> s, data |-> EmptyDict]
    /\ conn' = [conn EXCEPT ![s] = "open"]
    /\ published' = <<>> /\ ignored' = None /\ now' = 0
    /\ UNCHANGED <<store, users, cmd, disc, up, lastCmd, ops>>
    /\ response' = NoResponse /\ broadcast' = <<>> /\ UNCHANGED <<env, chan>>

RequestSyncFail(s) ==
    /\ ~redis_ok
    /\ conn[s] = "open"
    /\ ops < budget
    /\ ops' = ops + 1
    /\ sync_state' = [to |-> s, data |-> EmptyDict]
    /\ published' = <<>> /\ ignored' = None /\ now' = 0
    /\ UNCHANGED <<store, users, conn, cmd, disc, up, lastCmd>>
    /\ response' = NoResponse /\ broadcast' = <<>> /\ UNCHANGED <<env, chan>>

\* r.srem raises: handle_disconnect prints and returns, the member stays
DisconnectFail(s) ==
    /\ ~redis_ok
    /\ conn[s] = "open"
    /\ disc[s].pc = "idle"
    /\ ops < budget
    /\ ops' = ops + 1
    /\ conn' = [conn EXCEPT ![s] = "closed"]
    /\ disc' = [disc EXCEPT ![s] = SkippedDisc]
    /\ published' = <<>> /\ sync_state' = NoSync /\ ignored' = None /\ now' = 0
    /\ UNCHANGED <<store, users, cmd, up, lastCmd>>
    /\ response' = NoResponse /\ broadcast' = <<>> /\ UNCHANGED <<env, chan>>

\* r.hget raises inside is_controller, which returns False
DisconnectCheckFail(s) ==
    /\ ~redis_ok
    /\ disc[s].pc = "is_controller"
    /\ disc' = [disc EXCEPT ![s] = after_disconnect_check(disc[s], FALSE)]
    /\ published' = <<>> /\ sync_state' = NoSync /\ ignored' = None /\ now' = 0
    /\ UNCHANGED <<store, users, conn, cmd, up, lastCmd, ops>>
    /\ response' = NoResponse /\ broadcast' = <<>> /\ UNCHANGED <<env, chan>>

\* srandmember, hset or publish raises inside elect_new_controller, which
\* prints and returns None
ElectFail(s) ==
    /\ ~redis_ok
    /\ disc[s].pc \in {"srandmember", "hset", "publish"}
    /\ disc' = [disc EXCEPT ![s] = DoneDisc]
    /\ published' = <<>> /\ sync_state' = NoSync /\ ignored' = None /\ now' = 0
    /\ UNCHANGED <<store, users, conn, cmd, up, lastCmd, ops>>
    /\ response' = NoResponse /\ broadcast' = <<>> /\ UNCHANGED <<env, chan>>

CommandCheckFail(s) ==
    /\ ~redis_ok
    /\ cmd[s].pc = "is_controller"
    /\ cmd' = [cmd EXCEPT ![s] = after_check(cmd[s], FALSE)]
    /\ ignored' = IF cmd'[s].pc = "idle" THEN s ELSE None
    /\ published' = <<>> /\ sync_state' = NoSync /\ now' = 0
    /\ UNCHANGED <<store, users, conn, disc, up, lastCmd, ops>>
    /\ response' = NoResponse /\ broadcast' = <<>> /\ UNCHANGED <<env, chan>>

\* pipe.execute or r.publish raises in handle_play, handle_pause or
\* handle_seek: nothing catches it, the handler ends there
CommandFail(s) ==
    /\ ~redis_ok
    /\ cmd[s].pc \in {"execute", "publish"}
    /\ cmd' = [cmd EXCEPT ![s] = IdleCmd]
    /\ published' = <<>> /\ sync_state' = NoSync /\ ignored' = None /\ now' = 0
    /\ UNCHANGED <<store, users, conn, disc, up, lastCmd, ops>>
    /\ response' = NoResponse /\ broadcast' = <<>> /\ UNCHANGED <<env, chan>>

\* jsonify({"success": False, "error": "Server error"}), 500
ServerError == [status |-> 500, body |-> [success |-> FALSE, error |-> "Server error"]]

\* pipe.execute raises in upload_video
UploadFail(req) ==
    /\ ~redis_ok
    /\ req \in Accepted
    /\ up[req.sid].pc = "idle"
    /\ ops < budget
    /\ ops' = ops + 1
    /\ response' = ServerError
    /\ published' = <<>> /\ sync_state' = NoSync /\ ignored' = None /\ now' = 0
    /\ broadcast' = <<>>
    /\ UNCHANGED <<store, users, conn, cmd, disc, up, lastCmd, env, chan>>

\* r.publish raises in upload_video
UploadPublishFail(s) ==
    /\ ~redis_ok
    /\ up[s].pc \in {"publish_video_loaded", "publish_controller_change"}
    /\ up' = [up EXCEPT ![s] = IdleUp]
    /\ response' = ServerError
    /\ published' = <<>> /\ sync_state' = NoSync /\ ignored' = None /\ now' = 0
    /\ broadcast' = <<>>
    /\ UNCHANGED <<store, users, conn, cmd, disc, lastCmd, ops, env, chan>>

NextFail ==
    \/ Next
    \/ RedisDown
    \/ RedisUp
    \/ \E s \in Sessions : ConnectSaddFail(s)
    \/ \E s \in Sessions : ConnectEmitFail(s)
    \/ \E s \in Sessions : RequestSyncFail(s)
    \/ \E s \in Sessions : DisconnectFail(s)
    \/ \E s \in Sessions : DisconnectCheckFail(s)
    \/ \E s \in Sessions : ElectFail(s)
    \/ \E s \in Sessions : CommandCheckFail(s)
    \/ \E s \in Sessions : CommandFail(s)
    \/ \E req \in Accepted : UploadFail(req)
    \/ \E s \in Sessions : UploadPublishFail(s)

InitFail == Start(MaxFailOps, "starting")

SpecFail == InitFail /\ [][NextFail]_vars

\* ---------------------------------------------------- redis_event_listener
\* pubsub.subscribe(SYNC_CHANNEL), at the start and after the backoff: a new
\* subscription holds no message
ListenerSubscribe ==
    /\ listener \in {"starting", "backoff"}
    /\ listener' = "listening"
    /\ chan' = <<>>
    /\ published' = <<>> /\ sync_state' = NoSync /\ ignored' = None /\ now' = 0
    /\ response' = NoResponse /\ broadcast' = <<>>
    /\ UNCHANGED <<store, users, conn, cmd, disc, up, lastCmd, ops,
                   redis_ok, budget, failed>>

\* one turn of `for message in pubsub.listen()`: socketio.emit(event_name,
\* event_data) of the oldest unread message
ListenerBroadcast ==
    /\ listener = "listening"
    /\ chan # <<>>
    /\ broadcast' = <<Head(chan)>>
    /\ chan' = Tail(chan)
    /\ published' = <<>> /\ sync_state' = NoSync /\ ignored' = None /\ now' = 0
    /\ response' = NoResponse
    /\ UNCHANGED <<store, users, conn, cmd, disc, up, lastCmd, ops, env>>

\* mutant: an exception ends the listener
after_listener_error_dies(listener_pc) == "dead"

\* `except Exception`: print, socketio.sleep(2), and the loop goes round
after_listener_error(listener_pc) == "backoff"

\* listen() or socketio.emit raises: the pubsub object and what it had
\* buffered are dropped
ListenerFail ==
    /\ listener = "listening"
    /\ ops < budget
    /\ ops' = ops + 1
    /\ failed' = TRUE
    /\ listener' = after_listener_error(listener)
    /\ chan' = <<>>
    /\ published' = <<>> /\ sync_state' = NoSync /\ ignored' = None /\ now' = 0
    /\ response' = NoResponse /\ broadcast' = <<>>
    /\ UNCHANGED <<store, users, conn, cmd, disc, up, lastCmd, redis_ok, budget>>

NextBus ==
    \/ Next
    \/ ListenerSubscribe
    \/ ListenerBroadcast
    \/ ListenerFail

\* the listener task has subscribed before the first request is served
InitBus == Start(MaxBusOps, "listening")

SpecBus == InitBus /\ [][NextBus]_vars

\* the listener with one source of events, the uploads (two publishes each).
\* The listener is a green thread of its own: the hub runs it whenever it can
\* take a step (the sleep is over, a message is readable), hence the weak
\* fairness of its two steps; nothing obliges clients, or failures, to occur.
NextListener ==
    \/ \E req \in Accepted : Upload(req)
    \/ \E s \in Sessions : UploadPublishLoaded(s)
    \/ \E s \in Sessions : UploadPublishController(s)
    \/ ListenerSubscribe
    \/ ListenerBroadcast
    \/ ListenerFail

SpecListener ==
    /\ InitBus
    /\ [][NextListener]_vars
    /\ WF_vars(ListenerSubscribe)
    /\ WF_vars(ListenerBroadcast)

\* ------------------------------------------------------------------ claims
Max(a, b) == IF a >= b THEN a ELSE b

\* the step is the pipeline of the command handler of session s
Executes(s) == cmd[s].pc = "execute" /\ cmd'[s].pc = "publish"

\* the step is is_controller answering the command handler of session s
Checks(s) == cmd[s].pc = "is_controller" /\ cmd'[s] # cmd[s]

\* C1: a command's pipeline writes the store only when its issuer is the
\* controller at the moment of the write (check and write are one step).
C1_WriteOnlyByController ==
    [][\A s \in Sessions : Executes(s) => store.controller_sid = s]_vars

\* C2: a play, pause or seek from a session that is not the controller when
\* is_controller is asked leaves every field of the store and the set of
\* connected sessions as they were, and the handler returns without writing.
C2_NonControllerChangesNothing ==
    [][\A s \in Sessions :
          (Checks(s) /\ store.controller_sid # s)
             => /\ store' = store
                /\ users' = users
                /\ cmd'[s] = IdleCmd
                /\ ignored' = s]_vars

\* a command of a session was dropped while another session is the controller
C2_Witness ==
    /\ ignored \in Sessions
    /\ store.controller_sid \in Sessions \ {ignored}

\* C3: the controller an election writes is empty exactly when the membership
\* it drew from was empty, is otherwise a member of that membership, and is
\* never the session whose disconnect ran the election.
C3_ElectedWasMember ==
    [][\A s \in Sessions :
          (disc[s].pc = "hset" /\ disc'[s].pc = "publish")
             => /\ (store'.controller_sid = "") <=> (disc[s].members = {})
                /\ store'.controller_sid # "" => store'.controller_sid \in disc[s].members
                /\ store'.controller_sid # s]_vars

\* an election has written a remaining session as the controller
C3_Witness ==
    \E s \in Sessions :
        /\ disc[s].pc = "publish"
        /\ disc[s].members # {}
        /\ store.controller_sid = disc[s].sel

\* no handler is between two of its steps
Quiescent ==
    /\ \A s \in Sessions : conn[s] # "sadd_done"
    /\ \A s \in Sessions : cmd[s].pc = "idle"
    /\ \A s \in Sessions : disc[s].pc \in {"idle", "done", "done_no_election"}
    /\ \A s \in Sessions : up[s].pc = "idle"

\* C4: once every handler has finished, a non-empty controller is a connected
\* session (nothing but a connect, disconnect or upload changes either side
\* afterwards, so a stale controller stays stale).
C4_ControllerEventuallyMember ==
    Quiescent => (store.controller_sid = "" \/ store.controller_sid \in users)

\* C5: a snapshot's position is current_time when not playing and
\* current_time + max(0, now - last_update_timestamp) when playing.
C5_SnapshotClamps ==
    sync_state.to # None =>
        sync_state.data.current_time =
            IF store.is_playing = "1"
            THEN store.current_time + Max(0, now - store.last_update_timestamp)
            ELSE store.current_time

\* C6: the stored current_time is never negative, and neither is the position
\* of a snapshot, whatever the clock reads.
C6_NeverNegative ==
    /\ store.current_time >= 0
    /\ sync_state.data.current_time >= 0
    /\ \A t \in Clock : get_current_state(store, t).current_time >= 0

\* C7: the step of an upload of url u by s leaves the store holding exactly
\* video_file_url = u, not playing, current_time = 0, last_update_timestamp =
\* the clock reading of the step, controller_sid = s; and no step changes
\* video_file_url without setting the other four with it.
C7_UploadResetsAtOnce ==
    [][/\ \A s \in Sessions :
             (up[s].pc = "idle" /\ up'[s].pc = "publish_video_loaded")
                => store' = [video_file_url |-> up'[s].url,
                             is_playing |-> "0",
                             current_time |-> 0,
                             last_update_timestamp |-> now',
                             controller_sid |-> s]
       /\ store'.video_file_url # store.video_file_url
             => /\ store'.is_playing = "0"
                /\ store'.current_time = 0
                /\ store'.last_update_timestamp = now'
                /\ \E s \in Sessions :
                      store'.controller_sid = s /\ up'[s].pc = "publish_video_loaded"]_vars

\* an upload by s has reset a state another session had set playing
C7_Witness ==
    \E s \in Sessions : \E c \in Sessions \ {s} :
        /\ up[s].pc = "publish_video_loaded"
        /\ cmd[c].pc = "publish" /\ cmd[c].kind = "play"
        /\ store = upload_video(up[s].url, s, now)

\* C8: the pipeline of an accepted command with time t sets current_time = t
\* and last_update_timestamp = the clock reading; play leaves is_playing "1",
\* pause "0", seek as it was; video_file_url and controller_sid are kept.
C8_CommandEffect ==
    [][\A s \in Sessions :
          Executes(s)
             => /\ cmd[s].auth
                /\ store'.current_time = cmd'[s].time
                /\ store'.last_update_timestamp = now'
                /\ store'.is_playing =
                      (CASE cmd[s].kind = "play" -> "1"
                         [] cmd[s].kind = "pause" -> "0"
                         [] cmd[s].kind = "seek" -> store.is_playing)
                /\ store'.video_file_url = store.video_file_url
                /\ store'.controller_sid = store.controller_sid]_vars

\* a seek was applied to a playing state at a positive time
C8_Witness ==
    \E s \in Sessions :
        /\ cmd[s].pc = "publish" /\ cmd[s].kind = "seek" /\ cmd[s].wrote
        /\ store.is_playing = "1"
        /\ store.current_time = MaxTime
        /\ store.last_update_timestamp = now

\* the step applies a command again: the last write to the store was the
\* pipeline of the same handler with the same time
Reapplies(s) ==
    /\ Executes(s)
    /\ lastCmd.kind = cmd[s].kind
    /\ store.current_time = cmd'[s].time

\* C9 (as stated): applying a command a second time in succession leaves the
\* stored state as the first application left it.
C9_Idempotent ==
    [][\A s \in Sessions : Reapplies(s) => store' = store]_vars

\* C9 (amended): the second application leaves video_file_url, is_playing,
\* current_time and controller_sid as the first left them and sets
\* last_update_timestamp to its own clock reading.
C9_IdempotentButTimestamp ==
    [][\A s \in Sessions :
          Reapplies(s) => store' = [store EXCEPT !.last_update_timestamp = now']]_vars

\* a play was applied twice in succession, at two clock readings
C9_Witness ==
    \E s \in Sessions :
        /\ cmd[s].pc = "publish" /\ cmd[s].kind = "play"
        /\ lastCmd = [kind |-> "play", again |-> TRUE]
        /\ store.controller_sid = s
        /\ store.last_update_timestamp = MaxClock
        /\ store.is_playing = "1"

SyncEvents == {"sync_play", "sync_pause", "sync_seek"}

\* C10: a sync_play, sync_pause or sync_seek message is published only by a
\* handler that is_controller accepted and whose pipeline has run, and carries
\* that handler's time and session; a dropped command publishes nothing.
C10_PublishOnlyAfterWrite ==
    [][/\ \A i \in 1 .. Len(published') :
             published'[i].event \in SyncEvents
                => LET h == cmd[published'[i].data.sid]
                   IN  /\ h.pc = "publish" /\ h.auth /\ h.wrote
                       /\ published'[i].event = sync_event(h.kind)
                       /\ published'[i].data.time = h.time
       /\ \A s \in Sessions :
             (Checks(s) /\ store.controller_sid # s) => published' = <<>>
       /\ ignored' # None => published' = <<>>]_vars

\* a sync_pause of the controller has been published
C10_Witness ==
    /\ published # <<>>
    /\ published[1].event = "sync_pause"
    /\ published[1].data.sid = store.controller_sid
    /\ store.is_playing = "0"

\* ------------------------------------------------------------------- C11
\* the requests the validation of POST /upload refuses: no file part, an empty
\* file name, an extension outside ALLOWED_EXTENSIONS, no issuer
HasAllowedExtension(f) ==
    /\ Len(f) >= 2
    /\ f[Len(f) - 1] = "."
    /\ f[Len(f)] \in ALLOWED_EXTENSIONS

Rejectable(req) ==
    \/ req.file = NoFile
    \/ req.file = <<>>
    \/ ~HasAllowedExtension(req.file)
    \/ req.sid = ""

UploadErrors == {"No file part", "No selected file", "File type not allowed", "No client SID"}

RejectableRequests == {req \in Requests : Rejectable(req)}

\* each of them is answered with one of the four errors
RejectableAreRefused ==
    \A req \in RejectableRequests : upload_error(req) \in UploadErrors

\* C11: an upload request without a file part, with an empty file name, with a
\* disallowed extension or without an issuer is answered with a structured
\* error (status 400, success false, an error text); the step that answers it
\* leaves the store and the user set as they were and publishes nothing, and
\* no such request ever reaches the pipeline.
C11_RejectedUploadChangesNothing ==
    [][ /\ RejectableAreRefused
        /\ \A s \in Sessions : up'[s].pc # "idle" => up'[s].req \notin RejectableRequests
        /\ response'.status = 400 =>
              /\ response'.body.success = FALSE
              /\ response'.body.error \in UploadErrors
              /\ store' = store
              /\ users' = users
              /\ up' = up
              /\ published' = <<>>
              /\ chan' = chan ]_vars

\* an upload without an issuer was refused while a video uploaded before is loaded
C11_Witness ==
    /\ response.status = 400
    /\ response.body.error = "No client SID"
    /\ store.video_file_url # ""
    /\ store.controller_sid \in users

\* ------------------------------------------------------------------- C17
\* a step of elect_new_controller run by the disconnect handler of s
ElectionStep(s) ==
    /\ disc[s].pc \in {"srandmember", "hset", "publish"}
    /\ disc'[s] # disc[s]

\* C17: an election changes only controller_sid: whatever the stored state and
\* whatever the membership drawn from (the empty set included), each step of
\* the election leaves video_file_url, is_playing, current_time and
\* last_update_timestamp as they were, and its write sets controller_sid to
\* the member drawn ("" when there is none).
C17_ElectionChangesOnlyController ==
    [][ \A s \in Sessions : ElectionStep(s) =>
          /\ store'.video_file_url = store.video_file_url
          /\ store'.is_playing = store.is_playing
          /\ store'.current_time = store.current_time
          /\ store'.last_update_timestamp = store.last_update_timestamp
          /\ (disc[s].pc = "hset" => store'.controller_sid = elected(disc[s].sel))
          /\ (disc[s].pc # "hset" => store'.controller_sid = store.controller_sid) ]_vars

\* an election over the empty membership has written while the video plays
C17_Witness ==
    \E s \in Sessions :
        /\ disc[s].pc = "publish"
        /\ disc[s].members = {}
        /\ store.controller_sid = ""
        /\ store.is_playing = "1"
        /\ store.video_file_url # ""

\* ------------------------------------------------------------------- C18
\* a step of handle_connect for s
ConnectStep(s) ==
    /\ conn[s] \in {"new", "sadd_done"}
    /\ conn'[s] # conn[s]

\* C18: a connect adds the session id to the user set and changes no field of
\* the stored state; controller_sid stays as it was even when it is "" and the
\* connecting session is the only member.
C18_ConnectChangesNoState ==
    [][ \A s \in Sessions : ConnectStep(s) =>
          /\ store' = store
          /\ s \in users'
          /\ users' = users \cup {s}
          /\ published' = <<>> ]_vars

\* the only member has connected to a store that names no controller, after
\* the uploader of the loaded video left
C18_Witness ==
    \E s \in Sessions :
        /\ conn[s] = "open"
        /\ users = {s}
        /\ store.controller_sid = ""
        /\ store.video_file_url # ""

\* ------------------------------------------------------------------- C19
\* C19: a disconnect removes the session from the user set; when the session
\* is not the controller at the moment is_controller is asked, the handler
\* returns there: no election runs, every field of the store stays as it was
\* and nothing is published. An election is entered only by a disconnect whose
\* session is the controller at that moment.
C19_NonControllerDisconnect ==
    [][ \A s \in Sessions :
          /\ (conn[s] = "open" /\ conn'[s] = "closed") =>
                /\ users' = users \ {s}
                /\ store' = store
                /\ published' = <<>>
          /\ (disc[s].pc = "is_controller" /\ disc'[s] # disc[s]
                /\ store.controller_sid # s) =>
                /\ disc'[s] = SkippedDisc
                /\ store' = store
                /\ users' = users
                /\ published' = <<>>
          /\ (disc'[s].pc = "srandmember" /\ disc[s].pc # "srandmember") =>
                /\ disc[s].pc = "is_controller"
                /\ store.controller_sid = s
          /\ (disc'[s].pc \in {"hset", "publish", "done"} /\ disc'[s] # disc[s]) =>
                disc[s].pc \in {"srandmember", "hset", "publish"} ]_vars

\* a session that was not the controller has left; the controller is still a
\* member and the video it started still plays
C19_Witness ==
    \E s \in Sessions :
        /\ disc[s] = SkippedDisc
        /\ s \notin users
        /\ store.controller_sid \in users
        /\ store.video_file_url # ""

\* ------------------------------------------------------------------- C12
\* what handle_request_sync would emit in the state before the step, its
\* clock reading being the one the step took
request_sync_returns(data) ==
    IF redis_ok
    THEN \E ts \in Clock : /\ data = get_current_state(store, ts)
                           /\ now' = clock_read(store, ts)
    ELSE data = EmptyDict

\* C12: every connect delivers a snapshot to the connecting session, equal to
\* the one request_sync would return for the same stored state at the same
\* instant, also while the store is failing.
C12_ConnectDeliversSnapshot ==
    [][ \A s \in Sessions :
          (conn[s] \in {"new", "sadd_done"} /\ conn'[s] = "open") =>
             /\ sync_state'.to = s
             /\ request_sync_returns(sync_state'.data) ]_vars

\* ------------------------------------------------------------------- C15
\* the default PlaybackState: no video, not playing, position 0, no controller
IsDefaultSnapshot(data) ==
    /\ DOMAIN data = DOMAIN get_current_state(initialize_redis_state, 0)
    /\ data.video_file_url = ""
    /\ data.is_playing = FALSE
    /\ data.current_time = 0
    /\ data.controller_sid = ""

\* C15: while the store is unreachable a snapshot read returns the default
\* PlaybackState instead of failing, and the is_controller read of a command
\* or of a disconnect answers "not the controller": the handler writes nothing
\* and publishes nothing.
C15_StoreDownFailsClosed ==
    [][ ~redis_ok =>
          /\ sync_state'.to # None => IsDefaultSnapshot(sync_state'.data)
          /\ \A s \in Sessions :
                (cmd[s].pc = "is_controller" /\ cmd'[s] # cmd[s]) =>
                   /\ cmd'[s] = IdleCmd
                   /\ store' = store
                   /\ published' = <<>>
          /\ \A s \in Sessions :
                (disc[s] # disc'[s]) =>
                   /\ disc'[s].pc \in {"done", "done_no_election"}
                   /\ store' = store
                   /\ published' = <<>> ]_vars

\* ------------------------------------------------------------------- C14
\* C14: delivery is at most once and without replay. A broadcast takes the
\* oldest unread message off the subscription, so no message is broadcast
\* twice; a message enters the subscription only in the step that publishes
\* it and only while the listener is subscribed; while the listener is not
\* subscribed the subscription holds nothing, a message published then is
\* dropped, and a new subscription starts empty.
C14_AtMostOnceNoReplay ==
    [][ /\ broadcast' # <<>> =>
              /\ chan # <<>>
              /\ broadcast' = <<Head(chan)>>
              /\ chan' = Tail(chan)
        /\ listener # "listening" => chan = <<>>
        /\ (listener # "listening" /\ listener' = "listening") => chan' = <<>>
        /\ (published' # <<>> /\ listener # "listening") => chan' = <<>>
        /\ (published' # <<>> /\ listener = "listening") =>
              /\ Len(chan') = Len(chan) + 1
              /\ SubSeq(chan', 1, Len(chan)) = chan
              /\ chan'[Len(chan')].msg = published'[1]
        /\ (published' = <<>> /\ broadcast' = <<>>) => chan' \in {chan, <<>>} ]_vars

\* a message was published during the backoff and the subscription holds nothing
C14_Witness ==
    /\ listener = "backoff"
    /\ failed
    /\ published # <<>>
    /\ chan = <<>>

\* ------------------------------------------------------------------- C16
\* the step is the publish of a handler of session s that has written the store
PublishesAfterWrite(s) ==
    \/ cmd[s].pc = "publish" /\ cmd'[s] # cmd[s] /\ cmd[s].wrote
    \/ disc[s].pc = "publish" /\ disc'[s] # disc[s] /\ disc[s].wrote
    \/ /\ up[s].pc \in {"publish_video_loaded", "publish_controller_change"}
       /\ up'[s] # up[s]
       /\ up[s].wrote

\* C16: in every interleaving the write an event announces is applied before
\* the event is published, and the event is published before it is broadcast:
\* a handler is marked as having written only by its own write step, every
\* publish is made by a handler so marked, every unread message of the
\* subscription was published by such a handler, and the listener broadcasts
\* only the oldest unread message.
C16_WriteBeforePublishBeforeBroadcast ==
    [][ /\ \A s \in Sessions :
              /\ (~cmd[s].wrote /\ cmd'[s].wrote) => Executes(s)
              /\ (~disc[s].wrote /\ disc'[s].wrote) =>
                    /\ disc[s].pc = "hset"
                    /\ store'.controller_sid = elected(disc[s].sel)
              /\ (~up[s].wrote /\ up'[s].wrote) =>
                    /\ store'.controller_sid = s
                    /\ store'.video_file_url = up'[s].url
        /\ published' # <<>> => \E s \in Sessions : PublishesAfterWrite(s)
        /\ \A i \in 1 .. Len(chan') : chan'[i].applied
        /\ broadcast' # <<>> =>
              /\ chan # <<>>
              /\ broadcast'[1] = Head(chan)
              /\ broadcast'[1].applied ]_vars

\* the listener has broadcast the sync_play of a play whose write is in the store
C16_Witness ==
    /\ broadcast # <<>>
    /\ broadcast[1].msg.event = "sync_play"
    /\ broadcast[1].applied
    /\ store.is_playing = "1"
    /\ lastCmd.kind = "play"

\* ------------------------------------------------------------------- C20
\* C20: in every quiescent state (no handler running, the listener subscribed
\* without interruption, nothing unread) the event broadcast last agrees with
\* the store: a sync_play, sync_pause or sync_seek carries the stored
\* current_time and the stored is_playing, a video_loaded the stored video,
\* a controller_change the stored controller_sid.
C20_LastBroadcastAgreesWithStore ==
    (Quiescent /\ listener = "listening" /\ ~failed /\ chan = <<>> /\ broadcast # <<>>) =>
        LET e == broadcast[1].msg IN
        /\ e.event = "controller_change" => e.data.controller_sid = store.controller_sid
        /\ e.event = "video_loaded" =>
              /\ e.data.url = store.video_file_url
              /\ store.is_playing = "0"
              /\ store.current_time = 0
        /\ e.event \in {"sync_play", "sync_pause", "sync_seek"} =>
              e.data.time = store.current_time
        /\ e.event = "sync_play" => store.is_playing = "1"
        /\ e.event = "sync_pause" => store.is_playing = "0"

\* ------------------------------------------------------------------- C13
EventNames == {"sync_play", "sync_pause", "sync_seek", "video_loaded", "controller_change"}

\* C13: the listener never terminates; after a failure it waits and
\* subscribes again; and once no failure can occur any more (the budget of the
\* run is used up) the oldest unread message of the subscription, whatever
\* its event, is eventually broadcast - so every message published after the
\* last resubscription is.
C13_ListenerNeverStops ==
    /\ [](listener \in {"starting", "listening", "backoff"})
    /\ (listener = "backoff") ~> (listener = "listening")
    /\ \A name \in EventNames :
          (ops = budget /\ chan # <<>> /\ Head(chan).msg.event = name)
             ~> (broadcast # <<>> /\ broadcast[1].msg.event = name)

\* after a failure and a resubscription the listener has broadcast a message
\* published since, and no further failure can occur
C13_Witness ==
    /\ failed
    /\ listener = "listening"
    /\ ops = budget
    /\ broadcast # <<>>
    /\ broadcast[1].msg.event = "controller_change"

====
